---- MODULE Spec2Model ----
(***************************************************************************)
(* fxf: credential and session management of the Flux Capacitor CLI.       *)
(*                                                                         *)
(*   api.py       ApiFactory: one httpx client multiplexed by _depth       *)
(*   config.py    ConfigManager: config.toml (profiles/domains) + keyring  *)
(*   __main__.py  _get_token / login: the interactive validation loop;     *)
(*                gha: the error table of a refused Fluxfile               *)
(*                                                                         *)
(* Five specifications share the variables below:                          *)
(*   SpecFactory  arbitrary __enter__/__exit__ calls on one ApiFactory     *)
(*   SpecConfig   successive CLI invocations using one ConfigManager each  *)
(*   SpecRace     two invocations running save_credentials at once         *)
(*   SpecGha      one run of `fxf project gha`                             *)
(*   SpecLogin    one run of `fxf auth login`                              *)
(***************************************************************************)
EXTENDS Integers, Sequences, FiniteSets, TLC

\* ------------------------------------------------------------------ bounds
\* Deepest nesting of `with factory:` blocks explored.
MaxDepth == 3
\* Most httpx clients one factory constructs in a run.
MaxClients == 3
\* Most save_credentials calls in one behaviour.
MaxSaves == 2
\* Most prompts _get_token shows in one behaviour.
MaxPrompts == 3
\* Most segments in the path of one Fluxfile error.
MaxPath == 2
\* Most entries in the "fluxfile" list of a 400 response.
MaxErrors == 2

VARIABLES
    factory,    \* SpecFactory: the ApiFactory under test
    epOpened,   \* history: factory.opened when the current outermost scope was entered
    epClosed,   \* history: factory.closed when the current outermost scope was entered
    epClean,    \* history: no call has raised since the outermost scope was entered
    episodes,   \* history: whether an outermost scope has been entered at all
    epDepth,    \* history: deepest nesting reached since the outermost scope was entered
    lastOp,     \* history: the last call made on factory and the _depth it found
    disk,       \* the file system at config_path: [dir, exists, text]
    keyring,    \* the keyring service "fxf": base_url -> password or NoToken
    pc,         \* per CLI process: where it stands in its command
    profile,    \* per CLI process: cm.profile, set by main
    config,     \* per CLI process: the TOML document edit_profile holds
    call,       \* per CLI process: the arguments of the running save_credentials
    outcome,    \* per CLI process: how its last command ended
    table,      \* per CLI process: the rows its last `auth test` computed
    diskBefore, \* history, per process: disk when its save_credentials began
    keyringBefore, \* history, per process: keyring when its save_credentials began
    writes,     \* history: per write of the config file, who wrote and over what
    lastCall,   \* history, per instance: the most recent save_credentials call
    saves,      \* history: number of save_credentials calls begun
    instance_url, \* login: the --instance-url option
    locals,     \* login: _get_token's is_valid, next_message, token and user
    exc,        \* login: the exception that ended the with body, "None" if none
    sessions,   \* login: the ApiFactory of each iteration, the current one last
    shown,      \* history: the message of each prompt shown
    typed,      \* history: the answer to each prompt
    answers,    \* history: what each GET me/ came to
    ending,     \* login: how _get_token ended, "None" while it runs
    gha         \* `project gha`: the API's answer, the error table and how it ended

factoryVars == <<factory, epOpened, epClosed, epClean, episodes, epDepth, lastOp>>
configVars == <<disk, keyring, pc, profile, config, call, outcome, table,
                diskBefore, keyringBefore, writes, lastCall, saves>>
loginVars == <<instance_url, locals, exc, sessions, shown, typed, answers, ending>>
ghaVars == <<gha>>
vars == <<factoryVars, configVars, loginVars, ghaVars>>

\* ------------------------------------------------------------ api.py
\* What the httpx library can do when ApiFactory.__enter__ runs at depth 0.
\* httpx.Client(...) may raise before self.client is assigned; client.__enter__()
\* may raise after self.client is assigned, with the client opened or not.
EnterOutcomes ==
    {"ok", "client_init_raises", "client_enter_raises_unopened",
     "client_enter_raises_opened"}

\* What client.__exit__ can do: return, or raise with the client released or not.
ExitOutcomes == {"ok", "client_exit_raises_closed", "client_exit_raises_open"}

\* ApiFactory.__init__. client is "None" | "unopened" | "open" | "closed".
\* created/opened/closed count the client events of this factory, raised tells
\* whether the last call on it raised.
ApiFactory(base_url, token) ==
    [base_url |-> base_url, token |-> token, client |-> "None", _depth |-> 0,
     created |-> 0, opened |-> 0, closed |-> 0, raised |-> FALSE]

\* A faulty __enter__: builds and opens a client on every entry, nested or not.
__enter__EveryTime(self, o) ==
    [self EXCEPT !.client = "open", !.created = @ + 1, !.opened = @ + 1,
                 !._depth = @ + 1, !.raised = FALSE]

\* A faulty __enter__: a client is constructed only when the factory has none
\* yet; a factory entered again keeps the one it has.
__enter__Once(self, o) ==
    IF self._depth = 0 /\ self.client = "None"
    THEN [self EXCEPT !.client = "open", !.created = @ + 1, !.opened = @ + 1,
                      !._depth = 1, !.raised = FALSE]
    ELSE [self EXCEPT !._depth = @ + 1, !.raised = FALSE]

\* ApiFactory.__enter__ with the library behaving as o.
__enter__(self, o) ==
    IF self._depth = 0
    THEN CASE o = "ok" ->
                [self EXCEPT !.client = "open", !.created = @ + 1, !.opened = @ + 1,
                             !._depth = 1, !.raised = FALSE]
           [] o = "client_init_raises" ->
                [self EXCEPT !.raised = TRUE]
           [] o = "client_enter_raises_unopened" ->
                [self EXCEPT !.client = "unopened", !.created = @ + 1,
                             !.raised = TRUE]
           [] OTHER ->
                [self EXCEPT !.client = "open", !.created = @ + 1, !.opened = @ + 1,
                             !.raised = TRUE]
    ELSE [self EXCEPT !._depth = @ + 1, !.raised = FALSE]

\* A faulty __exit__: releases the client only when the with body ended normally.
__exit__unless_raised(self, exc_type, o) ==
    IF self._depth # 0
    THEN IF self._depth - 1 = 0 /\ exc_type = "None"
         THEN [self EXCEPT !._depth = 0, !.client = "closed", !.closed = @ + 1,
                           !.raised = FALSE]
         ELSE [self EXCEPT !._depth = @ - 1, !.raised = FALSE]
    ELSE [self EXCEPT !.raised = FALSE]

\* A faulty __exit__: the depth is decremented without being tested first.
__exit__Unguarded(self, exc_type, o) ==
    IF self._depth - 1 = 0
    THEN [self EXCEPT !._depth = 0, !.client = "closed", !.closed = @ + 1,
                      !.raised = FALSE]
    ELSE [self EXCEPT !._depth = @ - 1, !.raised = FALSE]

\* A faulty __exit__: the depth is decremented and the client is left open.
__exit__NoClose(self, exc_type, o) ==
    IF self._depth # 0
    THEN [self EXCEPT !._depth = @ - 1, !.raised = FALSE]
    ELSE [self EXCEPT !.raised = FALSE]

\* ApiFactory.__exit__, called with the exception exc_type that ended the with body
\* ("None" when none did), the library behaving as o. client.__exit__ is handed
\* the exception and closes the client whatever it is.
__exit__(self, exc_type, o) ==
    IF self._depth # 0
    THEN IF self._depth - 1 = 0
         THEN CASE o = "ok" ->
                     [self EXCEPT !._depth = 0, !.client = "closed",
                                  !.closed = @ + 1, !.raised = FALSE]
                [] o = "client_exit_raises_closed" ->
                     [self EXCEPT !._depth = 0, !.client = "closed",
                                  !.closed = @ + 1, !.raised = TRUE]
                [] OTHER ->
                     [self EXCEPT !._depth = 0, !.raised = TRUE]
         ELSE [self EXCEPT !._depth = @ - 1, !.raised = FALSE]
    ELSE [self EXCEPT !.raised = FALSE]

\* --------------------------------------------------------- config.py
\* Instance URLs, profile names and token strings explored. "" is the str that
\* get_api's `token: str = ""` default and an empty prompt answer denote.
Instances == {"u1", "u2"}
Profiles == {"default", "work"}
Tokens == {"t1", "t2"}
TokenInputs == Tokens \cup {""}
\* keyring's get_password returns None when nothing is stored.
NoToken == "<None>"
\* Python's `not token`.
Falsy(token) == token = NoToken \/ token = ""

Range(seq) == {seq[i] : i \in 1..Len(seq)}
Last(seq) == seq[Len(seq)]
NoDuplicates(seq) == \A i, j \in 1..Len(seq) : seq[i] = seq[j] => i = j

\* tomlkit.document() and tomlkit.table(): a document is an ordered table that may
\* hold the key "profiles", itself an ordered table of profile tables, each of
\* which may hold the key "domains".
document == [hasProfiles |-> FALSE, profiles |-> <<>>]
toml_table(name) == [name |-> name, hasDomains |-> FALSE, domains |-> <<>>]

\* TOMLDocument.as_string(): the file's lines, a "[profiles]" header, then per
\* profile a "[profiles.<name>]" header and, when the key is set, "domains = [...]".
RECURSIVE ProfileLines(_)
ProfileLines(ps) ==
    IF ps = <<>> THEN <<>>
    ELSE LET pr == Head(ps) IN
         <<[kind |-> "profile", name |-> pr.name, items |-> <<>>]>>
         \o (IF pr.hasDomains
             THEN <<[kind |-> "domains", name |-> "domains", items |-> pr.domains]>>
             ELSE <<>>)
         \o ProfileLines(Tail(ps))

as_string(doc) ==
    IF doc.hasProfiles
    THEN <<[kind |-> "profiles", name |-> "profiles", items |-> <<>>]>>
         \o ProfileLines(doc.profiles)
    ELSE <<>>

\* tomlkit.parse(): reads the lines back, each "domains" line into the profile
\* whose header precedes it.
RECURSIVE ParseLines(_, _)
ParseLines(text, doc) ==
    IF text = <<>> THEN doc
    ELSE LET l == Head(text)
             n == Len(doc.profiles)
             next == CASE l.kind = "profiles" -> [doc EXCEPT !.hasProfiles = TRUE]
                       [] l.kind = "profile" ->
                            [doc EXCEPT !.hasProfiles = TRUE,
                                        !.profiles = Append(@, toml_table(l.name))]
                       [] OTHER ->
                            IF n = 0 THEN doc
                            ELSE [doc EXCEPT !.profiles[n].hasDomains = TRUE,
                                             !.profiles[n].domains = l.items]
         IN ParseLines(Tail(text), next)

parse(text) == ParseLines(text, document)

\* ConfigManager.get_config
get_config(d) == IF d.exists THEN parse(d.text) ELSE document

\* What the file system can do in write_config: succeed, fail in mkdir, fail in
\* open("w"), or fail in f.write after open("w") truncated the file.
WriteOutcomes == {"ok", "mkdir_raises", "open_raises", "write_raises"}

\* ConfigManager.write_config with the file system behaving as o; a failed
\* f.write leaves the first n lines in the file.
write_config(d, doc, o, n) ==
    CASE o = "ok" -> [dir |-> TRUE, exists |-> TRUE, text |-> as_string(doc)]
      [] o = "mkdir_raises" -> d
      [] o = "open_raises" -> [d EXCEPT !.dir = TRUE]
      [] OTHER -> [dir |-> TRUE, exists |-> TRUE,
                   text |-> SubSeq(as_string(doc), 1, n)]

\* write_config as two processes can interleave it. open("w") creates the
\* directory and the file and truncates the file.
open_w(d) == [dir |-> TRUE, exists |-> TRUE, text |-> <<>>]

\* A faulty write: the text is added at the end of the file.
f_write_append(d, doc) == [d EXCEPT !.text = @ \o as_string(doc)]

\* f.write and the close that flushes it: the text goes to the start of the
\* file, over what another process wrote there since the open, whose lines
\* beyond the text's length stay.
f_write(d, doc) ==
    [d EXCEPT !.text = as_string(doc)
                       \o SubSeq(@, Len(as_string(doc)) + 1, Len(@))]

\* Position of the profile's table in config["profiles"], 0 when it is not there.
ProfileIndex(doc, name) ==
    IF \E i \in 1..Len(doc.profiles) : doc.profiles[i].name = name
    THEN CHOOSE i \in 1..Len(doc.profiles) : doc.profiles[i].name = name
    ELSE 0

\* ConfigManager.edit_profile up to its yield: the document, with the "profiles"
\* table and the profile's table added when missing.
edit_profile(d, name) ==
    LET c0 == get_config(d)
        c1 == IF ~c0.hasProfiles THEN [c0 EXCEPT !.hasProfiles = TRUE] ELSE c0
    IN IF ProfileIndex(c1, name) = 0
       THEN [c1 EXCEPT !.profiles = Append(@, toml_table(name))]
       ELSE c1

\* A faulty edit_profile: writes the document back in a finally clause.
edit_profile_finally(d, doc, raised, o, n) == write_config(d, doc, o, n)

\* ConfigManager.edit_profile after its yield: the generator is resumed and writes
\* the document when the with body ended normally; an exception of the body is
\* thrown into the generator at the yield and nothing after it runs.
edit_profile_resume(d, doc, raised, o, n) ==
    IF raised THEN d ELSE write_config(d, doc, o, n)

\* ConfigManager.get_profile
get_profile(d, name) ==
    LET c == get_config(d) IN
    IF ~c.hasProfiles THEN toml_table(name)
    ELSE IF ProfileIndex(c, name) = 0 THEN toml_table(name)
    ELSE c.profiles[ProfileIndex(c, name)]

\* profile.get("domains", [])
get_domains(tbl) == IF tbl.hasDomains THEN tbl.domains ELSE <<>>

\* A faulty save_credentials: appends the URL without looking for it.
save_credentials_append(doc, name, base_url) ==
    LET i == ProfileIndex(doc, name) IN
    [doc EXCEPT !.profiles[i].hasDomains = TRUE,
                !.profiles[i].domains = Append(get_domains(doc.profiles[i]), base_url)]

\* ConfigManager.save_credentials, the edits it makes to the profile it was
\* yielded: the URL is appended to domains unless it is in it already.
save_credentials(doc, name, base_url) ==
    LET i == ProfileIndex(doc, name)
        domains == get_domains(doc.profiles[i])
    IN [doc EXCEPT !.profiles[i].hasDomains = TRUE,
                   !.profiles[i].domains =
                       IF base_url \notin Range(domains)
                       THEN Append(domains, base_url)
                       ELSE domains]

\* What the keyring backend can do in set_password.
KeyringOutcomes == {"ok", "set_password_raises"}

\* A faulty _save_token: keeps a password that is already stored.
_save_token_keep(kr, base_url, token, o) ==
    IF o = "ok" /\ kr[base_url] = NoToken THEN [kr EXCEPT ![base_url] = token] ELSE kr

\* ConfigManager._save_token
_save_token(kr, base_url, token, o) ==
    IF o = "ok" THEN [kr EXCEPT ![base_url] = token] ELSE kr

\* ConfigManager._get_token
_get_token(kr, base_url) == kr[base_url]

\* A faulty get_api: builds the factory without checking the token.
get_api_unchecked(kr, name, base_url, token) ==
    [raised |-> "None", base_url |-> base_url, profile |-> name,
     api |-> <<ApiFactory(base_url, IF Falsy(token) THEN _get_token(kr, base_url)
                                                     ELSE token)>>]

\* ConfigManager.get_api: the ApiFactory it returns (api holds it), or the
\* MissingTokenError it raises for base_url and the profile.
get_api(kr, name, base_url, token) ==
    LET resolved == IF Falsy(token) THEN _get_token(kr, base_url) ELSE token IN
    IF Falsy(resolved)
    THEN [raised |-> "MissingTokenError", base_url |-> base_url, profile |-> name,
          api |-> <<>>]
    ELSE [raised |-> "None", base_url |-> base_url, profile |-> name,
          api |-> <<ApiFactory(base_url, resolved)>>]

\* ------------------------------------------------- __main__.py: auth test
\* What GET me/ can come to in api.me().get_current_user(): a 200 whose body has
\* type "authenticated" or another type, an HTTPStatusError raised by auto_raise,
\* or httpx.UnsupportedProtocol for a base URL httpx cannot request.
TestOutcomes == {"authenticated", "anonymous", "http_403", "http_500",
                 "unsupported_protocol"}

test_status(o) ==
    CASE o = "authenticated" -> "OK"
      [] o = "anonymous" -> "Not Authenticated"
      [] o = "http_403" -> "Invalid Token"
      [] o = "http_500" -> "HTTP 500"
      [] OTHER -> "UnsupportedProtocol"

\* The exception GET me/ raises in the with body of `test`.
test_exception(o) ==
    IF o \in {"http_403", "http_500"} THEN "HTTPStatusError"
    ELSE IF o = "unsupported_protocol" THEN "UnsupportedProtocol"
    ELSE "None"

\* The loop of `test` over the profile's domains from the i-th on, GET me/ coming
\* to outs[i] for it. A row holds the table's cells and what was done for them:
\* the MissingTokenError caught, the factory once its with block is left, the
\* number of requests sent, and the password the keyring held. UnsupportedProtocol
\* is not caught: it ends the command at that row.
RECURSIVE test_rows(_, _, _, _, _)
test_rows(domains, i, kr, name, outs) ==
    IF i > Len(domains) THEN <<>>
    ELSE LET domain == domains[i]
             got == get_api(kr, name, domain, "")
         IN IF got.raised = "MissingTokenError"
            THEN <<[domain |-> domain, status |-> "No Token",
                    error |-> <<[base_url |-> got.base_url, profile |-> got.profile]>>,
                    session |-> <<>>, requests |-> 0, stored |-> kr[domain]]>>
                 \o test_rows(domains, i + 1, kr, name, outs)
            ELSE LET api == __enter__(got.api[1], "ok")
                     row == [domain |-> domain, status |-> test_status(outs[i]),
                             error |-> <<>>, session |-> <<__exit__(api, test_exception(outs[i]), "ok")>>,
                             requests |-> 1, stored |-> kr[domain]]
                 IN IF outs[i] = "unsupported_protocol"
                    THEN <<row>>
                    ELSE <<row>> \o test_rows(domains, i + 1, kr, name, outs)

\* ------------------------------------------------- __main__.py: gha
\* What POST project/<id>/gha/ can come to: the generated files, or an
\* HTTPStatusError with status 400 or another status.
GhaOutcomes == {"files", "http_400", "http_500"}

\* A decoded 400 body: "fluxfile" is a list of {path, message} entries, a path a
\* list of segments, a segment a JSON string (a key) or a JSON number (an index).
\* The empty list stands for every falsy "fluxfile", a missing one included.
Segments == {[str |-> "steps"], [str |-> "name"], [int |-> 0]}
Messages == {"bad step", "required"}
Paths == UNION {[1..n -> Segments] : n \in 0..MaxPath}
ErrorEntries == [path : Paths, message : Messages]
FluxfileErrors == UNION {[1..n -> ErrorEntries] : n \in 0..MaxErrors}

\* isinstance(item, str)
is_str(item) == "str" \in DOMAIN item

RECURSIVE join_strs(_, _)
join_strs(sep, strs) ==
    IF strs = <<>> THEN ""
    ELSE IF Len(strs) = 1 THEN strs[1]
    ELSE strs[1] \o sep \o join_strs(sep, Tail(strs))

\* Python's sep.join(items): the strings joined by sep, or TypeError when an item
\* is not a str.
str_join(sep, items) ==
    IF \E i \in 1..Len(items) : ~is_str(items[i])
    THEN [raised |-> "TypeError", value |-> ""]
    ELSE [raised |-> "None",
          value |-> join_strs(sep, [i \in 1..Len(items) |-> items[i].str])]

\* table.add_row(".".join(err["path"]), err["message"]) for one entry: the table
\* with the row added, or the exception that ends the loop.
add_row(rows, err) ==
    LET cell == str_join(".", err.path) IN
    IF cell.raised # "None"
    THEN [raised |-> cell.raised, rows |-> rows]
    ELSE [raised |-> "None",
          rows |-> Append(rows, [path |-> cell.value, error |-> err.message])]

\* ------------------------------------------ __main__.py: _get_token
\* What GET me/ can come to inside the with block of _get_token: the outcomes of
\* `test`, one more error status, a 200 whose body has no "type", a transport
\* error other than UnsupportedProtocol, Ctrl-C (KeyboardInterrupt) and SIGTERM
\* (sigterm_handler raises SystemExit).
LoginOutcomes ==
    TestOutcomes \cup {"http_401", "no_type", "connect_error", "KeyboardInterrupt",
                       "SystemExit"}

\* The HTTPStatusError outcomes with e.response.status_code != 403.
OtherStatuses == {"http_401", "http_500"}

FirstMessage == "What is your token?"
InvalidMessage == "Invalid token, please try again"

\* _get_token's locals before the loop.
get_token_locals ==
    [is_valid |-> FALSE, next_message |-> FirstMessage, token |-> "",
     user |-> [type |-> "<unbound>"]]

\* A faulty prompt: the message is not replaced.
ask_same_message(l, answer) == [l EXCEPT !.token = answer]

\* token = Prompt.ask(next_message, password=True), then next_message is replaced.
ask(l, answer) == [l EXCEPT !.token = answer, !.next_message = InvalidMessage]

\* A faulty try block: every HTTPStatusError is taken for an invalid token.
who_am_i_any_status(l, o) ==
    CASE o = "authenticated" ->
           [locals |-> [l EXCEPT !.user = [type |-> "authenticated"],
                                 !.is_valid = TRUE], exc |-> "None"]
      [] o = "anonymous" ->
           [locals |-> [l EXCEPT !.user = [type |-> "anonymous"]], exc |-> "None"]
      [] o = "no_type" ->
           [locals |-> [l EXCEPT !.user = [type |-> "<missing>"]], exc |-> "KeyError"]
      [] o \in {"http_403"} \cup OtherStatuses -> [locals |-> l, exc |-> "None"]
      [] o = "unsupported_protocol" -> [locals |-> l, exc |-> "FxfError: Invalid URL"]
      [] OTHER -> [locals |-> l, exc |-> o]

\* A faulty try block: any decoded response validates the token.
who_am_i_any_type(l, o) ==
    CASE o \in {"authenticated", "anonymous"} ->
           [locals |-> [l EXCEPT !.user = [type |-> o], !.is_valid = TRUE],
            exc |-> "None"]
      [] o = "no_type" ->
           [locals |-> [l EXCEPT !.user = [type |-> "<missing>"]], exc |-> "KeyError"]
      [] o = "http_403" -> [locals |-> l, exc |-> "None"]
      [] o \in OtherStatuses -> [locals |-> l, exc |-> "FxfError: Unexpected error"]
      [] o = "unsupported_protocol" -> [locals |-> l, exc |-> "FxfError: Invalid URL"]
      [] OTHER -> [locals |-> l, exc |-> o]

\* A faulty try block: UnsupportedProtocol is taken for an invalid token too.
who_am_i_any_error(l, o) ==
    CASE o = "authenticated" ->
           [locals |-> [l EXCEPT !.user = [type |-> "authenticated"],
                                 !.is_valid = TRUE], exc |-> "None"]
      [] o = "anonymous" ->
           [locals |-> [l EXCEPT !.user = [type |-> "anonymous"]], exc |-> "None"]
      [] o = "no_type" ->
           [locals |-> [l EXCEPT !.user = [type |-> "<missing>"]], exc |-> "KeyError"]
      [] o \in {"http_403", "unsupported_protocol"} -> [locals |-> l, exc |-> "None"]
      [] o \in OtherStatuses -> [locals |-> l, exc |-> "FxfError: Unexpected error"]
      [] OTHER -> [locals |-> l, exc |-> o]

\* The try block of _get_token, GET me/ coming to o: the locals after it and the
\* exception that leaves the with body, "None" if none does.
who_am_i(l, o) ==
    CASE o = "authenticated" ->
           [locals |-> [l EXCEPT !.user = [type |-> "authenticated"],
                                 !.is_valid = TRUE], exc |-> "None"]
      [] o = "anonymous" ->
           [locals |-> [l EXCEPT !.user = [type |-> "anonymous"]], exc |-> "None"]
      [] o = "no_type" ->
           [locals |-> [l EXCEPT !.user = [type |-> "<missing>"]], exc |-> "KeyError"]
      [] o = "http_403" -> [locals |-> l, exc |-> "None"]
      [] o \in OtherStatuses -> [locals |-> l, exc |-> "FxfError: Unexpected error"]
      [] o = "unsupported_protocol" -> [locals |-> l, exc |-> "FxfError: Invalid URL"]
      [] OTHER -> [locals |-> l, exc |-> o]

\* Where _get_token stands once the with statement is left: an exception of
\* __exit__ or of the body propagates, else the loop tests is_valid.
after_with(l, e, exit_raised) ==
    IF exit_raised THEN [pc |-> "raised", ending |-> "client.__exit__ raised"]
    ELSE IF e # "None" THEN [pc |-> "raised", ending |-> e]
    ELSE IF l.is_valid THEN [pc |-> "returned", ending |-> "returned"]
    ELSE [pc |-> "prompt", ending |-> "None"]

\* ------------------------------------------------------- SpecFactory
\* Every CLI process of procs stands at `where` and has run nothing yet.
NoCall == [base_url |-> "", token |-> ""]

ConfigAt(procs, where) ==
    /\ pc = [p \in procs |-> where]
    /\ profile = [p \in procs |-> "default"]
    /\ config = [p \in procs |-> document]
    /\ call = [p \in procs |-> NoCall]
    /\ outcome = [p \in procs |-> "None"]
    /\ table = [p \in procs |-> <<>>]
    /\ diskBefore = [p \in procs |-> disk]
    /\ keyringBefore = [p \in procs |-> keyring]
    /\ writes = <<>>
    /\ lastCall = [i \in Instances |-> [token |-> NoToken, status |-> "none"]]
    /\ saves = 0

\* _get_token has not run.
LoginAtStart ==
    /\ locals = get_token_locals
    /\ exc = "None"
    /\ sessions = <<>>
    /\ shown = <<>>
    /\ typed = <<>>
    /\ answers = <<>>
    /\ ending = "None"

\* `project gha` has not run.
GhaAtStart ==
    gha = [pc |-> "start", answer |-> "None", errors |-> <<>>, next |-> 1,
           rows |-> <<>>, session |-> <<>>, ending |-> "None"]

FactoryAtStart ==
    /\ factory = ApiFactory("u1", "t1")
    /\ epOpened = 0
    /\ epClosed = 0
    /\ epClean = TRUE
    /\ episodes = FALSE
    /\ epDepth = 0
    /\ lastOp = [name |-> "__init__", depth |-> 0]

InitFactory ==
    /\ FactoryAtStart
    /\ disk = [dir |-> FALSE, exists |-> FALSE, text |-> <<>>]
    /\ keyring = [i \in Instances |-> NoToken]
    /\ ConfigAt({1}, "idle")
    /\ instance_url = "u1"
    /\ LoginAtStart
    /\ GhaAtStart

\* A caller runs factory.__enter__().
CallEnter ==
    \E o \in EnterOutcomes :
        /\ factory._depth < MaxDepth
        /\ factory._depth = 0 => factory.created < MaxClients
        /\ factory._depth > 0 => o = "ok"
        /\ factory' = __enter__(factory, o)
        /\ lastOp' = [name |-> "__enter__", depth |-> factory._depth]
        /\ IF factory._depth = 0 /\ ~factory'.raised
           THEN /\ epOpened' = factory.opened
                /\ epClosed' = factory.closed
                /\ epClean' = TRUE
                /\ episodes' = TRUE
                /\ epDepth' = 1
           ELSE /\ epClean' = (epClean /\ ~factory'.raised)
                /\ epDepth' = IF factory'._depth > epDepth THEN factory'._depth
                                                            ELSE epDepth
                /\ UNCHANGED <<epOpened, epClosed, episodes>>
        /\ UNCHANGED <<configVars, loginVars, ghaVars>>

\* A caller runs factory.__exit__(...), matched by an earlier __enter__ or not,
\* after a with body that ended normally or by an exception.
CallExit ==
    \E o \in ExitOutcomes, exc_type \in {"None", "Exception"} :
        /\ factory._depth # 1 => o = "ok"
        /\ factory' = __exit__(factory, exc_type, o)
        /\ lastOp' = [name |-> "__exit__", depth |-> factory._depth]
        /\ epClean' = (epClean /\ ~factory'.raised)
        /\ UNCHANGED <<epOpened, epClosed, episodes, epDepth>>
        /\ UNCHANGED <<configVars, loginVars, ghaVars>>

NextFactory == CallEnter \/ CallExit

SpecFactory == InitFactory /\ [][NextFactory]_vars

\* C1: in a properly nested run of __enter__/__exit__ calls that all return, from
\* the __enter__ at depth 0 on, exactly one client has been opened, none is closed
\* while the outermost scope is still entered, and exactly one has been closed once
\* the depth is back at 0.
C1_OneOpenOneClosePerScope ==
    (episodes /\ epClean) =>
        /\ factory.opened - epOpened = 1
        /\ factory.closed - epClosed = (IF factory._depth = 0 THEN 1 ELSE 0)

\* enter, enter, exit, exit: back at depth 0 after a nested scope, nothing raised.
C1_Witness ==
    /\ episodes
    /\ epClean
    /\ epDepth >= 2
    /\ factory._depth = 0
    /\ factory.opened - epOpened = 1
    /\ factory.closed - epClosed = 1

\* C2: the client is open exactly when _depth is greater than 0, whatever the
\* calls made and whether opening or closing the client raised.
C2_OpenIffDepthPositive ==
    (factory.client = "open") <=> (factory._depth > 0)

\* C17 as stated, in the runs the claim names (every client constructed was
\* opened, and closed when the depth returned to 0): whatever __enter__ and
\* __exit__ calls are made on the factory, it has constructed at most one client.
C17_OneClientPerFactory ==
    (/\ factory.created = factory.opened
     /\ factory.opened = factory.closed + (IF factory._depth > 0 THEN 1 ELSE 0)) =>
        factory.created <= 1

\* C17 amended: the factory constructs one client per outermost scope. A call
\* constructs at most one client; nested __enter__ calls and __exit__ calls
\* construct none; every __enter__ at depth 0 that returns, the first and each
\* re-entry after the depth has returned to 0, constructs a new one.
C17_OneClientPerOutermostScope ==
    [][/\ factory'.created \in {factory.created, factory.created + 1}
       /\ factory._depth > 0 => factory'.created = factory.created
       /\ lastOp'.name = "__exit__" => factory'.created = factory.created
       /\ (lastOp'.name = "__enter__" /\ factory._depth = 0 /\ ~factory'.raised) =>
             /\ factory'.created = factory.created + 1
             /\ factory'.client = "open"
             /\ factory'._depth = 1]_vars

\* enter, exit, enter with nothing raised: the factory is in its second
\* outermost scope and has constructed its second client, the first is closed.
C17_Witness ==
    /\ lastOp = [name |-> "__enter__", depth |-> 0]
    /\ factory._depth = 1
    /\ factory.client = "open"
    /\ factory.created = 2
    /\ factory.opened = 2
    /\ factory.closed = 1

\* C19: whatever __enter__ and __exit__ calls are made, matched or not, _depth
\* never goes below 0; an __exit__ made at depth 0 returns and changes nothing of
\* the factory; and a client is closed only by the __exit__ that takes the depth
\* from 1 to 0, while it is open: none is closed a second time.
C19_UnmatchedExitChangesNothing ==
    [][/\ factory'._depth >= 0
       /\ (lastOp'.name = "__exit__" /\ lastOp'.depth = 0) =>
             /\ factory' = [factory EXCEPT !.raised = FALSE]
             /\ factory'._depth = 0
       /\ factory'.closed # factory.closed =>
             /\ lastOp' = [name |-> "__exit__", depth |-> 1]
             /\ factory.client = "open"
             /\ factory'.client = "closed"
             /\ factory'.closed = factory.closed + 1
             /\ factory'.closed <= factory'.opened]_vars

\* enter, exit, exit: the second __exit__ found the depth at 0 and left it
\* there, and the one client is closed once.
C19_Witness ==
    /\ lastOp = [name |-> "__exit__", depth |-> 0]
    /\ factory._depth = 0
    /\ factory.client = "closed"
    /\ factory.opened = 1
    /\ factory.closed = 1

\* -------------------------------------------------------- SpecConfig
\* Successive invocations of the CLI, one at a time, each with its own -p profile.
DupFreeSeqs ==
    {q \in UNION {[1..n -> Instances] : n \in 0..Cardinality(Instances)} :
        NoDuplicates(q)}

\* What a config.toml may hold for one profile before the tool runs: nothing, an
\* empty table, or a duplicate-free domains list.
ProfileChoices ==
    {[present |-> FALSE, hasDomains |-> FALSE, domains |-> <<>>],
     [present |-> TRUE, hasDomains |-> FALSE, domains |-> <<>>]}
    \cup {[present |-> TRUE, hasDomains |-> TRUE, domains |-> q] : q \in DupFreeSeqs}

ChosenTable(name, ch) ==
    IF ch.present
    THEN <<[name |-> name, hasDomains |-> ch.hasDomains, domains |-> ch.domains]>>
    ELSE <<>>

\* The documents the tool may find: the default profile in any of these shapes,
\* the work profile absent or listing u2 (the same shapes, fewer of them).
InitDocs ==
    {document}
    \cup {[hasProfiles |-> TRUE,
           profiles |-> ChosenTable("default", a) \o ChosenTable("work", b)] :
             a \in ProfileChoices,
             b \in {c \in ProfileChoices : ~c.present \/ c.domains = <<"u2">>}}

InitDisks ==
    {[dir |-> FALSE, exists |-> FALSE, text |-> <<>>],
     [dir |-> TRUE, exists |-> FALSE, text |-> <<>>]}
    \cup {[dir |-> TRUE, exists |-> TRUE, text |-> as_string(doc)] : doc \in InitDocs}

\* What the keyring may hold before the tool runs.
InitKeyrings ==
    {[i \in Instances |-> NoToken],
     [i \in Instances |-> IF i = "u1" THEN "t1" ELSE NoToken]}

InitConfig ==
    /\ FactoryAtStart
    /\ disk \in InitDisks
    /\ keyring \in InitKeyrings
    /\ ConfigAt({1}, "idle")
    /\ instance_url = "u1"
    /\ LoginAtStart
    /\ GhaAtStart

\* Process p, whose profile is name, runs save_credentials(base_url, token) up to
\* its call of _save_token: edit_profile has read the document and the profile is
\* edited.
EnterScope(p, name, base_url, token) ==
    /\ saves' = saves + 1
    /\ profile' = [profile EXCEPT ![p] = name]
    /\ call' = [call EXCEPT ![p] = [base_url |-> base_url, token |-> token]]
    /\ config' = [config EXCEPT
                     ![p] = save_credentials(edit_profile(disk, name), name, base_url)]
    /\ diskBefore' = [diskBefore EXCEPT ![p] = disk]
    /\ keyringBefore' = [keyringBefore EXCEPT ![p] = keyring]
    /\ pc' = [pc EXCEPT ![p] = "scope"]
    /\ outcome' = [outcome EXCEPT ![p] = "None"]
    /\ table' = [table EXCEPT ![p] = <<>>]
    /\ UNCHANGED <<disk, keyring, lastCall, writes>>

\* A new process starts: main sets the profile and save_credentials(base_url,
\* token) runs up to its call of _save_token.
SaveBegin(p) ==
    \E name \in Profiles, base_url \in Instances, token \in TokenInputs :
        /\ pc[p] = "idle"
        /\ saves < MaxSaves
        /\ EnterScope(p, name, base_url, token)
        /\ UNCHANGED <<factoryVars, loginVars, ghaVars>>

\* A faulty save_credentials: the scope is left without the token being saved.
SaveTokenDeferred(p) ==
    /\ pc[p] = "scope"
    /\ pc' = [pc EXCEPT ![p] = "write"]
    /\ UNCHANGED <<disk, keyring, profile, config, call, outcome, table,
                   diskBefore, keyringBefore, writes, lastCall, saves>>
    /\ UNCHANGED <<factoryVars, loginVars, ghaVars>>

\* _save_token runs inside the edit_profile scope. When it raises, the with
\* statement throws the exception into edit_profile and save_credentials ends.
SaveToken(p) ==
    \E o \in KeyringOutcomes :
        /\ pc[p] = "scope"
        /\ keyring' = _save_token(keyring, call[p].base_url, call[p].token, o)
        /\ IF o = "ok"
           THEN /\ pc' = [pc EXCEPT ![p] = "write"]
                /\ UNCHANGED <<disk, outcome, lastCall>>
           ELSE /\ pc' = [pc EXCEPT ![p] = "idle"]
                /\ \E w \in WriteOutcomes :
                     \E n \in 0..Len(as_string(config[p])) :
                       /\ w = "mkdir_raises" => ~disk.dir
                       /\ w = "write_raises" => n < Len(as_string(config[p]))
                       /\ w # "write_raises" => n = 0
                       /\ disk' = edit_profile_resume(disk, config[p], TRUE, w, n)
                /\ outcome' = [outcome EXCEPT ![p] = "KeyringError"]
                /\ lastCall' = [lastCall EXCEPT ![call[p].base_url] =
                                   [token |-> call[p].token, status |-> "raised"]]
        /\ UNCHANGED <<profile, config, call, table, diskBefore, keyringBefore,
                       writes, saves>>
        /\ UNCHANGED <<factoryVars, loginVars, ghaVars>>

\* The with body of save_credentials is over: edit_profile is resumed and
\* write_config runs, which ends save_credentials.
SaveWrite(p) ==
    \E w \in WriteOutcomes :
        \E n \in 0..Len(as_string(config[p])) :
            /\ pc[p] = "write"
            /\ w = "mkdir_raises" => ~disk.dir
            /\ w = "write_raises" => n < Len(as_string(config[p]))
            /\ w # "write_raises" => n = 0
            /\ disk' = edit_profile_resume(disk, config[p], FALSE, w, n)
            /\ outcome' = [outcome EXCEPT ![p] = IF w = "ok" THEN "ok" ELSE "OSError"]
            /\ lastCall' = [lastCall EXCEPT ![call[p].base_url] =
                               [token |-> call[p].token,
                                status |-> IF w = "ok" THEN "ok" ELSE "raised"]]
            /\ pc' = [pc EXCEPT ![p] = "idle"]
            /\ UNCHANGED <<keyring, profile, config, call, table, diskBefore,
                           keyringBefore, writes, saves>>
            /\ UNCHANGED <<factoryVars, loginVars, ghaVars>>

\* How `auth test` ends.
TestEndings == {"No domains found", "UnsupportedProtocol", "table printed"}

\* A new process runs `fxf -p name auth test` to its end. It changes nothing a
\* later command reads, so a run that directly follows another run is left out: it
\* can compute only what the first run could.
AuthTest(p) ==
    \E name \in Profiles :
        LET domains == get_domains(get_profile(disk, name)) IN
        \E outs \in [1..Len(domains) -> TestOutcomes] :
            /\ pc[p] = "idle"
            /\ outcome[p] \notin TestEndings
            /\ profile' = [profile EXCEPT ![p] = name]
            /\ table' = [table EXCEPT ![p] = test_rows(domains, 1, keyring, name, outs)]
            /\ outcome' = [outcome EXCEPT ![p] =
                   IF domains = <<>> THEN "No domains found"
                   ELSE IF \E i \in 1..Len(domains) : outs[i] = "unsupported_protocol"
                        THEN "UnsupportedProtocol"
                        ELSE "table printed"]
            /\ config' = [config EXCEPT ![p] = document]
            /\ call' = [call EXCEPT ![p] = NoCall]
            /\ diskBefore' = [diskBefore EXCEPT ![p] = disk]
            /\ keyringBefore' = [keyringBefore EXCEPT ![p] = keyring]
            /\ UNCHANGED <<disk, keyring, pc, lastCall, saves, writes>>
            /\ UNCHANGED <<factoryVars, loginVars, ghaVars>>

NextConfig ==
    \/ \E p \in DOMAIN pc : SaveBegin(p)
    \/ \E p \in DOMAIN pc : SaveToken(p)
    \/ \E p \in DOMAIN pc : SaveWrite(p)
    \/ \E p \in DOMAIN pc : AuthTest(p)

SpecConfig == InitConfig /\ [][NextConfig]_vars

\* What get_api(base_url) with no explicit token resolves: the token of the
\* factory it returns, NoToken when it raises.
Resolved(kr, name, base_url) ==
    LET got == get_api(kr, name, base_url, "") IN
    IF got.raised = "None" THEN got.api[1].token ELSE NoToken

\* C5 as stated: once save_credentials(I, T) has returned, and until the next
\* save_credentials for I, get_api(I) with no explicit token resolves T, for every
\* instance I and every token string T.
C5_LookupResolvesLastSave ==
    \A p \in DOMAIN pc : \A i \in Instances :
        (pc[p] = "idle" /\ lastCall[i].status = "ok") =>
            Resolved(keyring, profile[p], i) = lastCall[i].token

\* C5 amended: the same for every non-empty token T; the keyring holds one
\* password per instance, the one of the latest save.
C5_LookupResolvesLastNonEmptySave ==
    \A p \in DOMAIN pc : \A i \in Instances :
        (pc[p] = "idle" /\ lastCall[i].status = "ok" /\ lastCall[i].token # "") =>
            /\ Resolved(keyring, profile[p], i) = lastCall[i].token
            /\ keyring[i] = lastCall[i].token

\* Two saves were made, both for u1, and the second has returned with token t2,
\* which the lookup resolves.
C5_Witness ==
    /\ pc[1] = "idle"
    /\ saves = 2
    /\ lastCall["u2"].status = "none"
    /\ lastCall["u1"] = [token |-> "t2", status |-> "ok"]
    /\ Resolved(keyring, profile[1], "u1") = "t2"

\* C12 as stated: the profile document listing I is persisted before the token is
\* saved, so whenever the keyring holds the token of a save_credentials(I, T)
\* that has not returned yet, the persisted profile lists I.
C12_ProfileWrittenBeforeToken ==
    \A p \in DOMAIN pc :
        (pc[p] = "write" /\ keyring[call[p].base_url] = call[p].token) =>
            call[p].base_url \in Range(get_domains(get_profile(disk, profile[p])))

\* C12 amended: save_credentials edits the profile in memory, saves the token
\* and only then persists the document. The keyring changes only inside the
\* scope, while the file is still what it was when the call began; the file
\* changes only afterwards, when the keyring already holds T for I.
C12_TokenSavedBeforeProfileWritten ==
    [][\A p \in DOMAIN pc :
          /\ keyring' # keyring =>
                /\ pc[p] = "scope"
                /\ disk' = disk
                /\ disk = diskBefore[p]
          /\ disk' # disk =>
                /\ pc[p] = "write"
                /\ keyring' = keyring
                /\ keyring[call[p].base_url] = call[p].token]_vars

\* save_credentials has stored a token for an instance that had none and has yet
\* to write the file, which is what it was before the call and does not list the
\* instance.
C12_Witness ==
    /\ pc[1] = "write"
    /\ keyringBefore[1][call[1].base_url] = NoToken
    /\ keyring[call[1].base_url] = call[1].token
    /\ call[1].token \in Tokens
    /\ disk = diskBefore[1]
    /\ call[1].base_url \notin Range(get_domains(get_profile(disk, profile[1])))

\* C13: a save_credentials that ends with an error, of the keyring or of the
\* write of the config file, leaves the config file (there or not, and its text)
\* and the keyring as they were when it began.
C13_ErrorLeavesNoPartialState ==
    \A p \in DOMAIN pc :
        (pc[p] = "idle" /\ outcome[p] \in {"KeyringError", "OSError"}) =>
            /\ disk.exists = diskBefore[p].exists
            /\ disk.text = diskBefore[p].text
            /\ keyring = keyringBefore[p]

\* C14: tokens are kept per profile/instance pair, so a save_credentials(I, T)
\* run under profile P leaves what get_api resolves under every other profile Q
\* as it was, for I and for every other instance.
C14_SaveLeavesOtherProfiles ==
    [][\A p \in DOMAIN pc :
          (pc[p] = "scope" /\ pc'[p] = "write") =>
              \A Q \in Profiles \ {profile[p]} : \A i \in Instances :
                  Resolved(keyring', Q, i) = Resolved(keyring, Q, i)]_vars

\* C6: no profile of the config document lists an instance twice, in the file
\* and in the document a save_credentials in progress is about to write.
C6_DomainsNoDuplicates ==
    /\ \A k \in 1..Len(get_config(disk).profiles) :
           NoDuplicates(get_domains(get_config(disk).profiles[k]))
    /\ \A p \in DOMAIN pc : \A k \in 1..Len(config[p].profiles) :
           NoDuplicates(get_domains(config[p].profiles[k]))

\* save_credentials has returned for an instance its profile listed already, and
\* the file now lists it exactly once, beside another instance.
C6_Witness ==
    /\ pc[1] = "idle"
    /\ outcome[1] = "ok"
    /\ saves = MaxSaves
    /\ call[1].base_url \in Range(get_domains(get_profile(diskBefore[1], profile[1])))
    /\ Len(get_domains(get_profile(disk, profile[1]))) = 2
    /\ call[1].base_url \in Range(get_domains(get_profile(disk, profile[1])))

\* C7: when the body of the edit_profile scope raises (save_credentials leaves
\* the scope without reaching write_config), the file system is what it was when
\* the edit began: same text, no file and no directory created.
C7_RaiseInScopeLeavesDisk ==
    [][\A p \in DOMAIN pc :
          (pc[p] = "scope" /\ pc'[p] = "idle") =>
              (disk' = disk /\ disk' = diskBefore[p])]_vars

\* _save_token has raised inside the scope; the edited document differs from the
\* file, which does not exist, and neither the file nor its directory was created.
C7_Witness ==
    /\ pc[1] = "idle"
    /\ outcome[1] = "KeyringError"
    /\ as_string(config[1]) # disk.text
    /\ ~disk.exists
    /\ ~disk.dir
    /\ disk = diskBefore[1]

\* C8: in every `auth test`, a domain for which the keyring holds no token gets
\* the MissingTokenError of get_api, naming the domain and the active profile; no
\* factory is entered and no request is sent for it; and the command changes
\* neither the keyring nor the config file.
C8_MissingTokenNoNetwork ==
    [][\A p \in DOMAIN pc :
          (pc[p] = "idle" /\ pc'[p] = "idle") =>
              /\ UNCHANGED <<disk, keyring>>
              /\ \A k \in 1..Len(table'[p]) :
                    Falsy(keyring[table'[p][k].domain]) =>
                        /\ table'[p][k].status = "No Token"
                        /\ table'[p][k].error =
                               <<[base_url |-> table'[p][k].domain,
                                  profile |-> profile'[p]]>>
                        /\ table'[p][k].session = <<>>
                        /\ table'[p][k].requests = 0]_vars

\* An `auth test` met a domain without a token and one with a token: the first
\* got "No Token" and no session, the second a session that opened a client.
C8_Witness ==
    \E k, m \in 1..Len(table[1]) :
        /\ Falsy(table[1][k].stored)
        /\ table[1][k].status = "No Token"
        /\ table[1][k].session = <<>>
        /\ ~Falsy(table[1][m].stored)
        /\ table[1][m].session # <<>>
        /\ table[1][m].session[1].opened = 1

\* ---------------------------------------------------------- SpecRace
\* Two invocations of the CLI at the same time, each running save_credentials;
\* nothing locks the config file, so their reads, keyring calls, opens and
\* writes interleave.
Racers == {1, 2}

\* What the racers find: no file, or a file listing u2 under the profile work.
InitRace ==
    /\ FactoryAtStart
    /\ disk \in {[dir |-> FALSE, exists |-> FALSE, text |-> <<>>],
                 [dir |-> TRUE, exists |-> TRUE,
                  text |-> as_string([hasProfiles |-> TRUE,
                                      profiles |-> <<[name |-> "work",
                                                      hasDomains |-> TRUE,
                                                      domains |-> <<"u2">>]>>])]}
    /\ keyring = [i \in Instances |-> NoToken]
    /\ ConfigAt(Racers, "idle")
    /\ instance_url = "u1"
    /\ LoginAtStart
    /\ GhaAtStart

\* The scope is left normally: edit_profile is resumed and write_config opens
\* the file.
WriteOpen(p) ==
    /\ pc[p] = "write"
    /\ disk' = open_w(disk)
    /\ pc' = [pc EXCEPT ![p] = "flush"]
    /\ UNCHANGED <<keyring, profile, config, call, outcome, table, diskBefore,
                   keyringBefore, writes, lastCall, saves>>
    /\ UNCHANGED <<factoryVars, loginVars, ghaVars>>

\* write_config writes the document and closes the file, which ends
\* save_credentials.
WriteFlush(p) ==
    /\ pc[p] = "flush"
    /\ disk' = f_write(disk, config[p])
    /\ writes' = Append(writes, [p |-> p, over |-> disk.text])
    /\ outcome' = [outcome EXCEPT ![p] = "ok"]
    /\ lastCall' = [lastCall EXCEPT ![call[p].base_url] =
                       [token |-> call[p].token, status |-> "ok"]]
    /\ pc' = [pc EXCEPT ![p] = "idle"]
    /\ UNCHANGED <<keyring, profile, config, call, table, diskBefore,
                   keyringBefore, saves>>
    /\ UNCHANGED <<factoryVars, loginVars, ghaVars>>

NextRace ==
    \/ \E p \in DOMAIN pc : SaveBegin(p)
    \/ \E p \in DOMAIN pc : SaveToken(p)
    \/ \E p \in DOMAIN pc : WriteOpen(p)
    \/ \E p \in DOMAIN pc : WriteFlush(p)

SpecRace == InitRace /\ [][NextRace]_vars

\* Both racers have run save_credentials to its end.
BothSaved == \A p \in Racers : pc[p] = "idle" /\ outcome[p] = "ok"

\* C15 as stated: after two racers editing the same profile have both finished,
\* the file holds exactly the document of the process that wrote last.
C15_LastWriterWins ==
    (BothSaved /\ saves = 2 /\ profile[1] = profile[2]) =>
        disk.text = as_string(config[Last(writes).p])

\* C15 amended: when nothing was written to the file between the last writer's
\* open and its write, the file holds exactly its document; when the other
\* process wrote in between, the file holds the last writer's text followed by
\* the lines of the other's text that lie beyond its length. The witness is the
\* interleaving in which the earlier writer's domain is lost.
C15_LastWriterWinsUnlessInterleaved ==
    (BothSaved /\ saves = 2) =>
        LET w == Last(writes)
            text == as_string(config[w.p])
        IN /\ w.over = <<>> => disk.text = text
           /\ disk.text = text \o SubSeq(w.over, Len(text) + 1, Len(w.over))
           /\ \A i \in 1..Len(text) : disk.text[i] = text[i]

\* Both racers read the file before either wrote it, process 1 wrote first and
\* process 2 after it, without interleaving: the file is process 2's document,
\* u1 which process 1 appended to the same profile is missing from domains, and
\* its token is in the keyring.
C15_Witness ==
    /\ BothSaved
    /\ saves = 2
    /\ profile[1] = profile[2]
    /\ call[1] = [base_url |-> "u1", token |-> "t1"]
    /\ call[2] = [base_url |-> "u2", token |-> "t2"]
    /\ Len(writes) = 2
    /\ writes[1].p = 1
    /\ writes[2].p = 2
    /\ writes[2].over = <<>>
    /\ disk.text = as_string(config[2])
    /\ get_domains(get_profile(disk, profile[1])) = <<"u2">>
    /\ keyring["u1"] = "t1"

\* ----------------------------------------------------------- SpecGha
\* One run of `fxf project gha` for a connected project of instance u1 that has
\* a Fluxfile, followed from the with statement on.
InitGha ==
    /\ FactoryAtStart
    /\ disk = [dir |-> FALSE, exists |-> FALSE, text |-> <<>>]
    /\ keyring \in InitKeyrings
    /\ ConfigAt({1}, "idle")
    /\ instance_url = "u1"
    /\ LoginAtStart
    /\ GhaAtStart

\* `with cm.get_api(proj["domain"]) as api`, then api.project().gha(...) and what
\* the try statement does with its answer up to the loop over the errors.
GhaPost ==
    LET got == get_api(keyring, profile[1], instance_url, "") IN
    /\ gha.pc = "start"
    /\ IF got.raised # "None"
       THEN gha' = [gha EXCEPT !.pc = "done", !.ending = got.raised]
       ELSE \E a \in GhaOutcomes, errors \in FluxfileErrors :
              /\ a # "http_400" => errors = <<>>
              /\ gha' = [gha EXCEPT
                     !.answer = a,
                     !.errors = errors,
                     !.session = <<__enter__(got.api[1], "ok")>>,
                     !.pc = IF a = "http_400" /\ errors # <<>> THEN "rows" ELSE "leave",
                     !.ending = CASE a = "files" -> "generated"
                                  [] a = "http_500" -> "ClickException: API error"
                                  [] errors = <<>> ->
                                       "ClickException: Unknown error from API"
                                  [] OTHER -> "None"]
    /\ UNCHANGED <<factoryVars, configVars, loginVars>>

\* One turn of `for err in errors`.
GhaAddRow ==
    /\ gha.pc = "rows"
    /\ gha.next <= Len(gha.errors)
    /\ LET added == add_row(gha.rows, gha.errors[gha.next]) IN
       gha' = IF added.raised # "None"
              THEN [gha EXCEPT !.pc = "leave", !.ending = added.raised]
              ELSE [gha EXCEPT !.rows = added.rows, !.next = @ + 1]
    /\ UNCHANGED <<factoryVars, configVars, loginVars>>

\* The loop is over: "Invalid Fluxfile" and the table are printed.
GhaPrint ==
    /\ gha.pc = "rows"
    /\ gha.next > Len(gha.errors)
    /\ gha' = [gha EXCEPT !.pc = "leave", !.ending = "Invalid Fluxfile"]
    /\ UNCHANGED <<factoryVars, configVars, loginVars>>

\* The with statement is left, normally or by the exception raised in it.
GhaLeave ==
    /\ gha.pc = "leave"
    /\ gha' = [gha EXCEPT
           !.pc = "done",
           !.session = <<__exit__(gha.session[1],
                                  IF gha.ending \in {"generated", "Invalid Fluxfile"}
                                  THEN "None" ELSE "Exception",
                                  "ok")>>]
    /\ UNCHANGED <<factoryVars, configVars, loginVars>>

NextGha == GhaPost \/ GhaAddRow \/ GhaPrint \/ GhaLeave

SpecGha == InitGha /\ [][NextGha]_vars

\* str(segment), which the claim's path cell is made of.
C16_Str(item) == IF is_str(item) THEN item.str ELSE ToString(item.int)

\* C16: a 400 answer whose "fluxfile" is a list of {path, message} entries ends
\* in the error table with one row per entry, its path cell the segments joined
\* with ".", string and integer segments alike, its error cell the message.
C16_OneRowPerEntry ==
    (gha.pc = "done" /\ gha.answer = "http_400" /\ gha.errors # <<>>) =>
        /\ gha.ending = "Invalid Fluxfile"
        /\ Len(gha.rows) = Len(gha.errors)
        /\ \A k \in 1..Len(gha.errors) :
              gha.rows[k] =
                 [path |-> join_strs(".", [i \in 1..Len(gha.errors[k].path) |->
                                              C16_Str(gha.errors[k].path[i])]),
                  error |-> gha.errors[k].message]

\* The same for entries whose segments are all strings, which the code does
\* join: {"fluxfile":[{"path":["steps","name"],"message":"bad step"}]} gives the
\* one row "steps.name", "bad step".
C16_OneRowPerStringEntry ==
    (/\ gha.pc = "done"
     /\ gha.answer = "http_400"
     /\ gha.errors # <<>>
     /\ \A k \in 1..Len(gha.errors) :
           \A i \in 1..Len(gha.errors[k].path) : is_str(gha.errors[k].path[i])) =>
        /\ gha.ending = "Invalid Fluxfile"
        /\ Len(gha.rows) = Len(gha.errors)
        /\ \A k \in 1..Len(gha.errors) :
              gha.rows[k] =
                 [path |-> join_strs(".", [i \in 1..Len(gha.errors[k].path) |->
                                              C16_Str(gha.errors[k].path[i])]),
                  error |-> gha.errors[k].message]

\* --------------------------------------------------------- SpecLogin
\* One run of `fxf -p <profile> auth login -u <instance_url>`, followed through
\* _get_token.
InitLogin ==
    /\ FactoryAtStart
    /\ disk = [dir |-> FALSE, exists |-> FALSE, text |-> <<>>]
    /\ keyring \in InitKeyrings
    /\ ConfigAt({1}, "prompt")
    /\ instance_url \in Instances
    /\ LoginAtStart
    /\ GhaAtStart

\* The loop test passed: the prompt is shown and answered.
Prompt(p) ==
    \E answer \in TokenInputs :
        /\ pc[p] = "prompt"
        /\ ~locals.is_valid
        /\ Len(shown) < MaxPrompts
        /\ shown' = Append(shown, locals.next_message)
        /\ typed' = Append(typed, answer)
        /\ locals' = ask(locals, answer)
        /\ pc' = [pc EXCEPT ![p] = "get_api"]
        /\ UNCHANGED <<exc, sessions, answers, ending, instance_url>>
        /\ UNCHANGED <<disk, keyring, profile, config, call, outcome, table,
                       diskBefore, keyringBefore, writes, lastCall, saves>>
        /\ UNCHANGED <<factoryVars, ghaVars>>

\* Ctrl-C or SIGTERM while the prompt waits: the exception leaves _get_token.
PromptInterrupt(p) ==
    \E signal \in {"KeyboardInterrupt", "SystemExit"} :
        /\ pc[p] = "prompt"
        /\ ~locals.is_valid
        /\ Len(shown) < MaxPrompts
        /\ shown' = Append(shown, locals.next_message)
        /\ pc' = [pc EXCEPT ![p] = "raised"]
        /\ ending' = signal
        /\ UNCHANGED <<locals, exc, sessions, typed, answers, instance_url>>
        /\ UNCHANGED <<disk, keyring, profile, config, call, outcome, table,
                       diskBefore, keyringBefore, writes, lastCall, saves>>
        /\ UNCHANGED <<factoryVars, ghaVars>>

\* `with cm.get_api(instance_url, token) as api`: get_api, then __enter__ on the
\* factory it returns. An exception of either leaves _get_token; __exit__ is not
\* called for an __enter__ that raised.
OpenSession(p) ==
    LET got == get_api(keyring, profile[p], instance_url, locals.token) IN
    /\ pc[p] = "get_api"
    /\ IF got.raised # "None"
       THEN /\ pc' = [pc EXCEPT ![p] = "raised"]
            /\ ending' = got.raised
            /\ UNCHANGED sessions
       ELSE \E o \in EnterOutcomes :
              LET api == __enter__(got.api[1], o) IN
              /\ sessions' = Append(sessions, api)
              /\ IF api.raised
                 THEN /\ pc' = [pc EXCEPT ![p] = "raised"]
                      /\ ending' = "ApiFactory.__enter__ raised"
                 ELSE /\ pc' = [pc EXCEPT ![p] = "body"]
                      /\ UNCHANGED ending
    /\ UNCHANGED <<locals, exc, shown, typed, answers, instance_url>>
    /\ UNCHANGED <<disk, keyring, profile, config, call, outcome, table,
                   diskBefore, keyringBefore, writes, lastCall, saves>>
    /\ UNCHANGED <<factoryVars, ghaVars>>

\* The with body: the try block around api.me().get_current_user().
WhoAmI(p) ==
    \E o \in LoginOutcomes :
        /\ pc[p] = "body"
        /\ answers' = Append(answers, o)
        /\ locals' = who_am_i(locals, o).locals
        /\ exc' = who_am_i(locals, o).exc
        /\ pc' = [pc EXCEPT ![p] = "exit"]
        /\ UNCHANGED <<sessions, shown, typed, ending, instance_url>>
        /\ UNCHANGED <<disk, keyring, profile, config, call, outcome, table,
                       diskBefore, keyringBefore, writes, lastCall, saves>>
        /\ UNCHANGED <<factoryVars, ghaVars>>

\* The with statement calls api.__exit__ with the exception of the body, then
\* the exception propagates, or the loop goes on, or _get_token returns.
LeaveSession(p) ==
    \E o \in ExitOutcomes :
        LET api == __exit__(Last(sessions), exc, o)
            next == after_with(locals, exc, api.raised)
        IN /\ pc[p] = "exit"
           /\ sessions' = [sessions EXCEPT ![Len(sessions)] = api]
           /\ pc' = [pc EXCEPT ![p] = next.pc]
           /\ ending' = next.ending
           /\ UNCHANGED <<locals, exc, shown, typed, answers, instance_url>>
           /\ UNCHANGED <<disk, keyring, profile, config, call, outcome, table,
                          diskBefore, keyringBefore, writes, lastCall, saves>>
           /\ UNCHANGED <<factoryVars, ghaVars>>

\* login once _get_token has returned: the welcome line reads first_name and
\* last_name of the identity (a KeyError ends login when the body lacks them),
\* then save_credentials(instance_url, token) runs with the token returned.
LoginSave(p) ==
    \E named \in BOOLEAN :
        /\ pc[p] = "returned"
        /\ IF named
           THEN /\ EnterScope(p, profile[p], instance_url, locals.token)
                /\ UNCHANGED loginVars
           ELSE /\ pc' = [pc EXCEPT ![p] = "raised"]
                /\ ending' = "KeyError: first_name"
                /\ UNCHANGED <<instance_url, locals, exc, sessions, shown, typed,
                               answers>>
                /\ UNCHANGED <<disk, keyring, profile, config, call, outcome, table,
                               diskBefore, keyringBefore, writes, lastCall, saves>>
        /\ UNCHANGED <<factoryVars, ghaVars>>

NextLogin ==
    \/ \E p \in DOMAIN pc : Prompt(p)
    \/ \E p \in DOMAIN pc : PromptInterrupt(p)
    \/ \E p \in DOMAIN pc : OpenSession(p)
    \/ \E p \in DOMAIN pc : WhoAmI(p)
    \/ \E p \in DOMAIN pc : LeaveSession(p)
    \/ \E p \in DOMAIN pc : LoginSave(p)
    \/ \E p \in DOMAIN pc : SaveToken(p)
    \/ \E p \in DOMAIN pc : SaveWrite(p)

SpecLogin == InitLogin /\ [][NextLogin]_vars

\* C3: whenever the body of the with block has ended, normally or by an HTTP
\* error, an FxfError, another exception, Ctrl-C or SIGTERM, and __enter__ and
\* __exit__ themselves have returned, every factory _get_token entered has had
\* its __exit__ run and its client closed: at the next prompt, at the return and
\* when the exception leaves _get_token.
C3_ClientReleasedOnEveryPath ==
    \A p \in DOMAIN pc :
        (/\ pc[p] \in {"prompt", "returned", "raised"}
         /\ ending \notin {"ApiFactory.__enter__ raised", "client.__exit__ raised"}) =>
            \A k \in 1..Len(sessions) :
                /\ sessions[k].client = "closed"
                /\ sessions[k]._depth = 0
                /\ sessions[k].opened = 1
                /\ sessions[k].closed = 1

\* SIGTERM arrived during the second GET me/: SystemExit left _get_token and both
\* clients are closed.
C3_Witness ==
    /\ pc[1] = "raised"
    /\ ending = "SystemExit"
    /\ answers = <<"http_403", "SystemExit">>
    /\ Len(sessions) = 2
    /\ \A k \in 1..2 : sessions[k].client = "closed" /\ sessions[k].closed = 1

\* C4: when _get_token returns after GET me/ failed with 403 for the first k
\* tokens and answered "authenticated" for token k+1, it has prompted k+1 times,
\* first with the question and then k times with the invalid-token message, and
\* returns the authenticated identity with token k+1.
C4_RepromptsPer403 ==
    \A p \in DOMAIN pc :
        (/\ pc[p] = "returned"
         /\ Last(answers) = "authenticated"
         /\ \A j \in 1..(Len(answers) - 1) : answers[j] = "http_403") =>
            /\ Len(shown) = Len(answers)
            /\ shown[1] = FirstMessage
            /\ \A j \in 2..Len(shown) : shown[j] = InvalidMessage
            /\ Len(typed) = Len(answers)
            /\ locals.token = typed[Len(answers)]
            /\ locals.user = [type |-> "authenticated"]

\* Two tokens were refused with 403, the third validated: three prompts, two of
\* them re-prompts, and the third token is returned.
C4_Witness ==
    /\ pc[1] = "returned"
    /\ answers = <<"http_403", "http_403", "authenticated">>
    /\ typed = <<"t1", "t1", "t2">>
    /\ shown = <<FirstMessage, InvalidMessage, InvalidMessage>>
    /\ locals.token = "t2"
    /\ locals.user.type = "authenticated"

\* C9 as stated: the loop goes back to the prompt only after a GET me/ that
\* failed with HTTP 403.
C9_RepromptOnlyAfter403 ==
    [][\A p \in DOMAIN pc :
          (pc[p] = "exit" /\ pc'[p] = "prompt") => Last(answers) = "http_403"]_vars

\* C9 amended: the loop goes back to the prompt only after a GET me/ that failed
\* with HTTP 403 or that succeeded with a type other than "authenticated"; it
\* returns only after an "authenticated" answer; after every other outcome an
\* exception leaves _get_token.
C9_RepromptOnlyAfter403OrOtherType ==
    [][\A p \in DOMAIN pc :
          (pc[p] = "exit" /\ pc'[p] # "exit") =>
              /\ pc'[p] \in {"prompt", "returned", "raised"}
              /\ pc'[p] = "prompt" => Last(answers) \in {"http_403", "anonymous"}
              /\ pc'[p] = "returned" => Last(answers) = "authenticated"
              /\ Last(answers) \notin {"http_403", "anonymous", "authenticated"} =>
                    (pc'[p] = "raised" /\ ending' # "None")]_vars

\* The loop is back at the prompt twice: once after a 403 and once after an
\* anonymous identity.
C9_Witness ==
    /\ pc[1] = "prompt"
    /\ answers = <<"http_403", "anonymous">>
    /\ locals.next_message = InvalidMessage
    /\ ~locals.is_valid

\* C10: _get_token returns only after a GET me/ that succeeded with type
\* "authenticated", and that identity is the one it returns; a successful answer
\* of another type sets neither is_valid nor an exception, so the loop goes on.
C10_ReturnsOnlyAuthenticated ==
    \A p \in DOMAIN pc :
        /\ pc[p] = "returned" =>
              /\ Last(answers) = "authenticated"
              /\ locals.user.type = "authenticated"
              /\ locals.is_valid
        /\ (pc[p] = "exit" /\ Last(answers) = "anonymous") =>
              /\ ~locals.is_valid
              /\ exc = "None"
              /\ after_with(locals, exc, FALSE).pc = "prompt"

\* An anonymous identity was answered first and did not validate; the second
\* answer was authenticated and _get_token returned it.
C10_Witness ==
    /\ pc[1] = "returned"
    /\ answers = <<"anonymous", "authenticated">>
    /\ locals.user.type = "authenticated"

\* C11: in the validation loop a GET me/ that fails with an HTTP status other
\* than 403 leaves the with body with the unexpected-error FxfError, and one that
\* httpx refuses as an unsupported protocol leaves it with the invalid-URL
\* FxfError; that error is what ends _get_token (unless closing the client raises
\* in its turn), the loop does not come back to the prompt, and login never
\* reaches save_credentials: keyring and config file are what they were.
C11_OtherFailuresAbort ==
    \A p \in DOMAIN pc :
        (answers # <<>> /\ Last(answers) \in OtherStatuses \cup {"unsupported_protocol"}) =>
            LET failure == IF Last(answers) \in OtherStatuses
                           THEN "FxfError: Unexpected error"
                           ELSE "FxfError: Invalid URL"
            IN /\ pc[p] \in {"exit", "raised"}
               /\ exc = failure
               /\ pc[p] = "raised" =>
                     /\ ending \in {failure, "client.__exit__ raised"}
                     /\ ~Last(sessions).raised => ending = failure
               /\ Len(shown) = Len(answers)
               /\ saves = 0
               /\ keyring = keyringBefore[p]
               /\ disk = diskBefore[p]
               /\ \A i \in Instances : lastCall[i].status = "none"

\* A first token was refused with 403, the second GET me/ failed with 401: the
\* unexpected-error FxfError left _get_token after two prompts, the client is
\* closed and the keyring still holds what it held.
C11_Witness ==
    /\ pc[1] = "raised"
    /\ answers = <<"http_403", "http_401">>
    /\ ending = "FxfError: Unexpected error"
    /\ Len(shown) = 2
    /\ Last(sessions).client = "closed"
    /\ keyring["u1"] = "t1"
    /\ saves = 0

\* C18: once login has stored the credential, the keyring holds for the instance
\* the token the last session was bound to, the one GET me/ answered
\* "authenticated" for, whatever was typed at the prompt.
C18_StoredTokenIsValidated ==
    \A p \in DOMAIN pc :
        (pc[p] = "idle" /\ outcome[p] = "ok") =>
            /\ Last(answers) = "authenticated"
            /\ keyring[instance_url] = Last(sessions).token

\* C20: in the validation loop every iteration gets a new ApiFactory from
\* get_api, bound to the candidate token (the typed one, or the stored one for
\* an empty answer), which constructs one client; the clients of the earlier
\* iterations are closed, so at most one is open at any time and none while the
\* prompt is shown or once _get_token has returned.
C20_NoClientOpenAtPrompt ==
    \A p \in DOMAIN pc :
        /\ Cardinality({k \in 1..Len(sessions) : sessions[k].client = "open"}) <= 1
        /\ \A k \in 1..Len(sessions) :
              /\ sessions[k].created <= 1
              /\ k < Len(sessions) => sessions[k].client = "closed"
        /\ pc[p] \in {"prompt", "get_api", "returned", "scope", "write", "idle"} =>
              \A k \in 1..Len(sessions) : sessions[k].client = "closed"
        /\ pc[p] \in {"body", "exit"} =>
              /\ Len(sessions) = Len(shown)
              /\ Last(sessions).created = 1
              /\ Last(sessions).token =
                     (IF Last(typed) = "" THEN keyring[instance_url] ELSE Last(typed))

\* The third iteration is in its with body: three factories were built, the
\* clients of the first two are closed and the third is open.
C20_Witness ==
    /\ pc[1] = "body"
    /\ Len(shown) = 3
    /\ Len(sessions) = 3
    /\ sessions[1].client = "closed"
    /\ sessions[2].client = "closed"
    /\ sessions[3].client = "open"
    /\ typed = <<"t1", "t2", "t1">>

====
